---- MODULE Spec2Model ----
(***************************************************************************)
(* Model of pallets/deeper-micropay-channel/src/lib.rs: the Channel and    *)
(* Nonce storage maps, the three dispatchables open_channel, close_channel *)
(* and claim_payment, and the helpers verify_signature and                 *)
(* construct_byte_array_and_hash.                                          *)
(*                                                                         *)
(* The host is modelled at its interface: one dispatch runs to completion  *)
(* (a step), the caller then reads the DispatchResult (Return), blocks     *)
(* advance the timestamp and clear the block's event list (NewBlock).      *)
(* secp256k1 and blake2_256 are idealised: a signature verifies under      *)
(* exactly the key that made it and over exactly the digest it was made    *)
(* for, and the hash is collision free.                                    *)
(***************************************************************************)
EXTENDS Integers, Sequences, FiniteSets, TLC

VARIABLES
    idLen,      \* encoded width of T::AccountId in this runtime
    Channel,    \* storage map (sender, receiver) -> Chan
    Nonce,      \* storage double map ((sender, receiver), nonce) -> bool
    balance,    \* T::Currency free balances
    events,     \* events deposited in the current block
    now,        \* T::Timestamp::now()
    call,       \* the dispatch last executed, NoCall once its result was read
    result,     \* what that dispatch returned
    opened,     \* history: successful open_channel calls so far
    closed,     \* history: successful close_channel calls per pair
    settled     \* history: successful claim_payment calls per (pair, nonce)

vars == <<idLen, Channel, Nonce, balance, events, now, call, result,
          opened, closed, settled>>

storage == <<Channel, Nonce, balance, events>>

----------------------------------------------------------------------------
(* Bounds of the exploration *)

MaxOpens == 2
MaxCloses == 1
MaxClaims == 2
MaxTime == 1
MaxNonce == 1
MaxAmount == 2
InitBalance == 2

(* Widths fixed by the code *)

PkLen == 33
SigLen == 64
NonceLen == 4
BalanceLen == 16
ShortIdLen == 32

Accounts == {"P", "Q", "B"}
Pairs == Accounts \X Accounts
Nonces == 0..MaxNonce
Amounts == 1..MaxAmount
IdLens == {ShortIdLen, PkLen}

----------------------------------------------------------------------------
(* Byte encodings *)

Rep(b, n) == [i \in 1..n |-> b]

RECURSIVE to_le_bytes(_, _)
to_le_bytes(n, w) ==
    IF w = 0 THEN <<>> ELSE <<n % 256>> \o to_le_bytes(n \div 256, w - 1)

RECURSIVE to_be_bytes(_, _)
to_be_bytes(n, w) ==
    IF w = 0 THEN <<>> ELSE to_be_bytes(n \div 256, w - 1) \o <<n % 256>>

\* The compressed secp256k1 point an account signs with: a tag byte and the
\* 32-byte x coordinate.  B's identifier carries the tag of an uncompressed
\* point, which is no compressed key.
PubKeyOf(a) ==
    CASE a = "P" -> <<2>> \o Rep(17, 32)
      [] a = "Q" -> <<3>> \o Rep(34, 32)
      [] a = "B" -> <<4>> \o Rep(51, 32)

\* AccountId::encode() in a runtime whose identifiers are len bytes wide
EncodeAt(a, len) ==
    IF len = PkLen THEN PubKeyOf(a) ELSE SubSeq(PubKeyOf(a), 2, PkLen)

AccountEncode(a) == EncodeAt(a, idLen)

\* BalanceOf<T>::encode(): SCALE, fixed width little endian
BalanceEncode(amount) == to_le_bytes(amount, BalanceLen)

blake2_256(data) == [blake2_256 |-> data]

construct_byte_array_and_hash(address, nonce, amount) ==
    LET data == AccountEncode(address)
                  \o to_be_bytes(nonce, NonceLen)
                  \o BalanceEncode(amount)
    IN  blake2_256(data)

\* The digest a payer signs off-ledger for (payee, nonce, amount) in a runtime
\* whose identifiers are len bytes wide
CommitmentAt(q, n, a, len) ==
    blake2_256(EncodeAt(q, len) \o to_be_bytes(n, NonceLen) \o to_le_bytes(a, BalanceLen))

----------------------------------------------------------------------------
(* secp256k1 *)

parse_compressed(pk) == [ok |-> pk[1] \in {2, 3}, key |-> pk]

parse_slice(signature) == [ok |-> signature.len = SigLen, sig |-> signature]

\* verify that compares the key and not the message
verify_key_only(message, sig, pub_key) ==
    sig.key = pub_key

verify(message, sig, pub_key) ==
    /\ sig.key = pub_key
    /\ sig.msg = message

\* What a key holder hands out off-ledger
Sign(k, digest) == [len |-> SigLen, key |-> PubKeyOf(k), msg |-> digest]

Malformed == [len |-> SigLen - 1, key |-> <<>>, msg |-> blake2_256(<<>>)]

\* The claims signed off-ledger: <<signer, payee, nonce, amount>>.  P pays Q in
\* two sessions, the first with an accumulated amount, P pays B, Q pays P, and
\* Q signs with its own key a claim it would like to settle against P.
Issued ==
    {<<"P", "Q", 0, 1>>, <<"P", "Q", 0, MaxAmount>>, <<"P", "Q", MaxNonce, 1>>,
     <<"P", "B", 0, 1>>, <<"Q", "P", 0, 1>>, <<"Q", "Q", 0, 1>>}

SignaturesAt(len) ==
    {Malformed} \cup
    {Sign(c[1], CommitmentAt(c[2], c[3], c[4], len)) : c \in Issued}

Signatures32 == SignaturesAt(ShortIdLen)
Signatures33 == SignaturesAt(PkLen)
Signatures == IF idLen = PkLen THEN Signatures33 ELSE Signatures32

----------------------------------------------------------------------------
(* Results a dispatch can end with *)

Ok == "Ok"
ChannelAlreadyOpen == "Channel already opened"
SelfChannelNotAllowed == "Channel should connect two different accounts"
ChannelNotFound == "Channel not exists"
NonceAlreadyConsumed == "Nonce already consumed"
InvalidAccountKeyEncoding == "Invalid Pubkey"
InvalidSignatureEncoding == "Invalid Signature"
SignatureVerificationFailed == "Fail to verify"
InsufficientFunds == "InsufficientBalance"
\* copy_from_slice on slices of different lengths: the dispatch does not return
Panic == "panic: source slice length does not match destination slice length"
Pending == "none"

Errors == {ChannelAlreadyOpen, SelfChannelNotAllowed, ChannelNotFound,
           NonceAlreadyConsumed, InvalidAccountKeyEncoding,
           InvalidSignatureEncoding, SignatureVerificationFailed,
           InsufficientFunds}

ChannelOpened(s, r, t) == [event |-> "ChannelOpened", sender |-> s, receiver |-> r, arg |-> t]
ChannelClosed(s, r, t) == [event |-> "ChannelClosed", sender |-> s, receiver |-> r, arg |-> t]
ClaimPaymentEvent(s, r, a) == [event |-> "ClaimPayment", sender |-> s, receiver |-> r, arg |-> a]

\* The state a dispatch leaves behind, with what it returned
Outcome(status, ch, no, bal, ev) ==
    [status |-> status, Channel |-> ch, Nonce |-> no, balance |-> bal, events |-> ev]

\* ensure!(..) failing, or `?` on an Err: return before any write
Fail(status) == Outcome(status, Channel, Nonce, balance, events)

----------------------------------------------------------------------------
(* T::Currency::transfer(from, to, amount, AllowDeath) *)

\* transfer under KeepAlive: the sender may not be emptied
transfer_keep_alive(from, to, amount) ==
    IF balance[from] <= amount
    THEN [ok |-> FALSE, balance |-> balance]
    ELSE [ok |-> TRUE,
          balance |-> IF from = to THEN balance
                      ELSE [balance EXCEPT ![from] = @ - amount, ![to] = @ + amount]]

\* transfer that credits the receiver without debiting the sender
transfer_mint(from, to, amount) ==
    IF balance[from] < amount
    THEN [ok |-> FALSE, balance |-> balance]
    ELSE [ok |-> TRUE, balance |-> [balance EXCEPT ![to] = @ + amount]]

transfer(from, to, amount) ==
    IF balance[from] < amount
    THEN [ok |-> FALSE, balance |-> balance]
    ELSE [ok |-> TRUE,
          balance |-> IF from = to THEN balance
                      ELSE [balance EXCEPT ![from] = @ - amount, ![to] = @ + amount]]

----------------------------------------------------------------------------
(* impl Module *)

\* verify_signature that parses key and signature and never calls verify
verify_signature_unchecked(sender, receiver, nonce, amount, signature) ==
    IF Len(AccountEncode(sender)) # PkLen THEN Panic
    ELSE IF ~parse_compressed(AccountEncode(sender)).ok THEN InvalidAccountKeyEncoding
    ELSE IF ~parse_slice(signature).ok THEN InvalidSignatureEncoding
    ELSE Ok

verify_signature(sender, receiver, nonce, amount, signature) ==
    IF Len(AccountEncode(sender)) # PkLen THEN Panic
    ELSE LET pub_key == parse_compressed(AccountEncode(sender))
             sig == parse_slice(signature)
             message == construct_byte_array_and_hash(receiver, nonce, amount)
         IN  IF ~pub_key.ok THEN InvalidAccountKeyEncoding
             ELSE IF ~sig.ok THEN InvalidSignatureEncoding
             ELSE IF ~verify(message, sig.sig, pub_key.key) THEN SignatureVerificationFailed
             ELSE Ok

----------------------------------------------------------------------------
(* decl_module: the dispatchables *)

\* open_channel without the contains_key check: an open channel is rewritten
open_channel_overwrite(sender, receiver) ==
    IF sender = receiver THEN Fail(SelfChannelNotAllowed)
    ELSE LET chan == [sender |-> sender, receiver |-> receiver, expiration |-> now]
         IN  Outcome(Ok,
                     (<<sender, receiver>> :> chan) @@ Channel,
                     Nonce, balance,
                     Append(events, ChannelOpened(sender, receiver, now)))

\* open_channel without the check that the two accounts differ
open_channel_no_self_check(sender, receiver) ==
    IF <<sender, receiver>> \in DOMAIN Channel THEN Fail(ChannelAlreadyOpen)
    ELSE LET chan == [sender |-> sender, receiver |-> receiver, expiration |-> now]
         IN  Outcome(Ok,
                     (<<sender, receiver>> :> chan) @@ Channel,
                     Nonce, balance,
                     Append(events, ChannelOpened(sender, receiver, now)))

open_channel(sender, receiver) ==
    IF <<sender, receiver>> \in DOMAIN Channel THEN Fail(ChannelAlreadyOpen)
    ELSE IF sender = receiver THEN Fail(SelfChannelNotAllowed)
    ELSE LET time == now
             chan == [sender |-> sender, receiver |-> receiver, expiration |-> time]
         IN  Outcome(Ok,
                     (<<sender, receiver>> :> chan) @@ Channel,
                     Nonce, balance,
                     Append(events, ChannelOpened(sender, receiver, time)))

\* close_channel without remove_prefix: the nonces outlive the channel
close_channel_keep_nonces(receiver, sender) ==
    IF <<sender, receiver>> \notin DOMAIN Channel THEN Fail(ChannelNotFound)
    ELSE Outcome(Ok,
                 [k \in DOMAIN Channel \ {<<sender, receiver>>} |-> Channel[k]],
                 Nonce, balance,
                 Append(events, ChannelClosed(sender, receiver, now)))

\* close_channel that looks the channel up under (caller, argument): the payer
\* closes its own channel
close_channel_by_sender(receiver, sender) ==
    IF <<receiver, sender>> \notin DOMAIN Channel THEN Fail(ChannelNotFound)
    ELSE Outcome(Ok,
                 [k \in DOMAIN Channel \ {<<receiver, sender>>} |-> Channel[k]],
                 {e \in Nonce : e[1] # <<receiver, sender>>},
                 balance,
                 Append(events, ChannelClosed(receiver, sender, now)))

\* close_channel that removes the nonce record of sequence number 0 only,
\* instead of the whole prefix
close_channel_remove_one(receiver, sender) ==
    IF <<sender, receiver>> \notin DOMAIN Channel THEN Fail(ChannelNotFound)
    ELSE Outcome(Ok,
                 [k \in DOMAIN Channel \ {<<sender, receiver>>} |-> Channel[k]],
                 Nonce \ {<<<<sender, receiver>>, 0>>},
                 balance,
                 Append(events, ChannelClosed(sender, receiver, now)))

\* close_channel that also removes the channel and the nonces of the reverse
\* pair
close_channel_both_directions(receiver, sender) ==
    IF <<sender, receiver>> \notin DOMAIN Channel THEN Fail(ChannelNotFound)
    ELSE Outcome(Ok,
                 [k \in DOMAIN Channel \ {<<sender, receiver>>, <<receiver, sender>>}
                    |-> Channel[k]],
                 {e \in Nonce : e[1] \notin {<<sender, receiver>>, <<receiver, sender>>}},
                 balance,
                 Append(events, ChannelClosed(sender, receiver, now)))

close_channel(receiver, sender) ==
    IF <<sender, receiver>> \notin DOMAIN Channel THEN Fail(ChannelNotFound)
    ELSE Outcome(Ok,
                 [k \in DOMAIN Channel \ {<<sender, receiver>>} |-> Channel[k]],
                 {e \in Nonce : e[1] # <<sender, receiver>>},
                 balance,
                 Append(events, ChannelClosed(sender, receiver, now)))

\* What claim_payment does once every ensure! has passed, given the transfer
Settle(receiver, sender, nonce, amount, bal) ==
    Outcome(Ok, Channel,
            Nonce \cup {<<<<sender, receiver>>, nonce>>},
            bal,
            Append(events, ClaimPaymentEvent(sender, receiver, amount)))

\* claim_payment without the ensure! on the nonce
claim_payment_no_nonce_check(receiver, sender, nonce, amount, signature) ==
    IF <<sender, receiver>> \notin DOMAIN Channel THEN Fail(ChannelNotFound)
    ELSE LET v == verify_signature(sender, receiver, nonce, amount, signature)
         IN  IF v # Ok THEN Fail(v)
             ELSE LET t == transfer(sender, receiver, amount)
                  IN  IF ~t.ok THEN Fail(InsufficientFunds)
                      ELSE Settle(receiver, sender, nonce, amount, t.balance)

\* claim_payment that never marks the nonce as used
claim_payment_no_mark(receiver, sender, nonce, amount, signature) ==
    IF <<sender, receiver>> \notin DOMAIN Channel THEN Fail(ChannelNotFound)
    ELSE IF <<<<sender, receiver>>, nonce>> \in Nonce THEN Fail(NonceAlreadyConsumed)
    ELSE LET v == verify_signature(sender, receiver, nonce, amount, signature)
         IN  IF v # Ok THEN Fail(v)
             ELSE LET t == transfer(sender, receiver, amount)
                  IN  IF ~t.ok THEN Fail(InsufficientFunds)
                      ELSE Outcome(Ok, Channel, Nonce, t.balance,
                                   Append(events, ClaimPaymentEvent(sender, receiver, amount)))

\* claim_payment that marks the nonce before the transfer and returns the
\* transfer's error with the mark in place
claim_payment_mark_first(receiver, sender, nonce, amount, signature) ==
    IF <<sender, receiver>> \notin DOMAIN Channel THEN Fail(ChannelNotFound)
    ELSE IF <<<<sender, receiver>>, nonce>> \in Nonce THEN Fail(NonceAlreadyConsumed)
    ELSE LET v == verify_signature(sender, receiver, nonce, amount, signature)
         IN  IF v # Ok THEN Fail(v)
             ELSE LET t == transfer(sender, receiver, amount)
                  IN  IF ~t.ok
                      THEN Outcome(InsufficientFunds, Channel,
                                   Nonce \cup {<<<<sender, receiver>>, nonce>>},
                                   balance, events)
                      ELSE Settle(receiver, sender, nonce, amount, t.balance)

\* claim_payment that transfers from the receiver to the sender
claim_payment_reversed(receiver, sender, nonce, amount, signature) ==
    IF <<sender, receiver>> \notin DOMAIN Channel THEN Fail(ChannelNotFound)
    ELSE IF <<<<sender, receiver>>, nonce>> \in Nonce THEN Fail(NonceAlreadyConsumed)
    ELSE LET v == verify_signature(sender, receiver, nonce, amount, signature)
         IN  IF v # Ok THEN Fail(v)
             ELSE LET t == transfer(receiver, sender, amount)
                  IN  IF ~t.ok THEN Fail(InsufficientFunds)
                      ELSE Settle(receiver, sender, nonce, amount, t.balance)

\* claim_payment whose nonce check looks at every channel: a sequence number
\* consumed on any pair is refused
claim_payment_global_nonce(receiver, sender, nonce, amount, signature) ==
    IF <<sender, receiver>> \notin DOMAIN Channel THEN Fail(ChannelNotFound)
    ELSE IF \E e \in Nonce : e[2] = nonce THEN Fail(NonceAlreadyConsumed)
    ELSE LET v == verify_signature(sender, receiver, nonce, amount, signature)
         IN  IF v # Ok THEN Fail(v)
             ELSE LET t == transfer(sender, receiver, amount)
                  IN  IF ~t.ok THEN Fail(InsufficientFunds)
                      ELSE Settle(receiver, sender, nonce, amount, t.balance)

claim_payment(receiver, sender, nonce, amount, signature) ==
    IF <<sender, receiver>> \notin DOMAIN Channel THEN Fail(ChannelNotFound)
    ELSE IF <<<<sender, receiver>>, nonce>> \in Nonce THEN Fail(NonceAlreadyConsumed)
    ELSE LET v == verify_signature(sender, receiver, nonce, amount, signature)
         IN  IF v # Ok THEN Fail(v)
             ELSE LET t == transfer(sender, receiver, amount)
                  IN  IF ~t.ok THEN Fail(InsufficientFunds)
                      ELSE Settle(receiver, sender, nonce, amount, t.balance)

----------------------------------------------------------------------------
(* The host: dispatching calls, returning results, producing blocks *)

NoSig == [len |-> 0, key |-> <<>>, msg |-> blake2_256(<<>>)]

NoCall == [op |-> "none", origin |-> "P", who |-> "P", nonce |-> 0, amount |-> 0,
           signature |-> NoSig]

OpenCall(o, r) == [op |-> "open_channel", origin |-> o, who |-> r, nonce |-> 0,
                   amount |-> 0, signature |-> NoSig]
CloseCall(o, s) == [op |-> "close_channel", origin |-> o, who |-> s, nonce |-> 0,
                    amount |-> 0, signature |-> NoSig]
ClaimCall(o, s, n, a, sig) == [op |-> "claim_payment", origin |-> o, who |-> s,
                               nonce |-> n, amount |-> a, signature |-> sig]

SumSeq(f, S) ==
    LET RECURSIVE Sum(_)
        Sum(T) == IF T = {} THEN 0
                  ELSE LET x == CHOOSE y \in T : TRUE IN f[x] + Sum(T \ {x})
    IN  Sum(S)

TotalClosed == SumSeq(closed, Pairs)
TotalSettled == SumSeq([k \in DOMAIN settled |-> Len(settled[k])], DOMAIN settled)

\* Storage and result as the dispatch leaves them
Commit(c, out) ==
    /\ call' = c
    /\ result' = out.status
    /\ Channel' = out.Channel
    /\ Nonce' = out.Nonce
    /\ balance' = out.balance
    /\ events' = out.events
    /\ UNCHANGED <<idLen, now>>

OpenChannel ==
    /\ call = NoCall
    /\ \E o \in Accounts, r \in Accounts :
           LET out == open_channel(o, r) IN
           /\ out.status = Ok => opened < MaxOpens
           /\ Commit(OpenCall(o, r), out)
           /\ opened' = IF out.status = Ok THEN opened + 1 ELSE opened
           /\ UNCHANGED <<closed, settled>>

CloseChannel ==
    /\ call = NoCall
    /\ \E o \in Accounts, s \in Accounts :
           LET out == close_channel(o, s) IN
           /\ out.status = Ok => TotalClosed < MaxCloses
           /\ Commit(CloseCall(o, s), out)
           /\ closed' = IF out.status = Ok THEN [closed EXCEPT ![<<s, o>>] = @ + 1] ELSE closed
           /\ UNCHANGED <<opened, settled>>

ClaimPayment ==
    /\ call = NoCall
    /\ \E sig \in Signatures, o \in Accounts, s \in Accounts, n \in Nonces, a \in Amounts :
           LET out == claim_payment(o, s, n, a, sig) IN
           /\ out.status = Ok => TotalSettled < MaxClaims
           /\ Commit(ClaimCall(o, s, n, a, sig), out)
           /\ settled' = IF out.status = Ok
                         THEN [settled EXCEPT ![<<<<s, o>>, n>>] = Append(@, closed[<<s, o>>])]
                         ELSE settled
           /\ UNCHANGED <<opened, closed>>

\* The caller has the DispatchResult; the next extrinsic may be applied
Return ==
    /\ call # NoCall
    /\ call' = NoCall
    /\ result' = Pending
    /\ UNCHANGED <<idLen, Channel, Nonce, balance, events, now, opened, closed, settled>>

\* A new block: frame_system clears the block's events, the timestamp moves on
NewBlock ==
    /\ call = NoCall
    /\ now < MaxTime
    /\ now' = now + 1
    /\ events' = <<>>
    /\ UNCHANGED <<idLen, Channel, Nonce, balance, call, result, opened, closed, settled>>

Init ==
    /\ idLen \in IdLens
    /\ Channel = <<>>
    /\ Nonce = {}
    /\ balance = [a \in Accounts |-> InitBalance]
    /\ events = <<>>
    /\ now = 0
    /\ call = NoCall
    /\ result = Pending
    /\ opened = 0
    /\ closed = [p \in Pairs |-> 0]
    /\ settled = [k \in Pairs \X Nonces |-> <<>>]

Next == OpenChannel \/ CloseChannel \/ ClaimPayment \/ Return \/ NewBlock

Spec == Init /\ [][Next]_vars

----------------------------------------------------------------------------
(* Vocabulary of the properties *)

\* The ordered pair (payer, payee) a call is about
PairOf(c) == IF c.op = "open_channel" THEN <<c.origin, c.who>> ELSE <<c.who, c.origin>>

KeyOf(c) == <<PairOf(c), c.nonce>>

IsClaim(c) == c.op = "claim_payment"

\* The identifier is a compressed public key of the expected width
WellFormedKey(a) ==
    /\ Len(AccountEncode(a)) = PkLen
    /\ AccountEncode(a)[1] \in {2, 3}

\* The claims <<signer, payee, nonce, amount>> whose off-ledger signature c carries
SignedBy(c) ==
    {i \in Issued : c.signature = Sign(i[1], CommitmentAt(i[2], i[3], i[4], idLen))}

\* c carries the payer's signature over exactly the payee, nonce and amount submitted
Authentic(c) == SignedBy(c) = {<<c.who, c.origin, c.nonce, c.amount>>}

\* c carries the payer's signature, made for another payee, nonce or amount
Tampered(c) ==
    \E i \in SignedBy(c) : i[1] = c.who /\ <<i[2], i[3], i[4]>> # <<c.origin, c.nonce, c.amount>>

\* The events the step deposits
Deposited ==
    IF Len(events') >= Len(events) /\ SubSeq(events', 1, Len(events)) = events
    THEN SubSeq(events', Len(events) + 1, Len(events'))
    ELSE events'

NoncesOf(pair) == {e \in Nonce : e[1] = pair}

----------------------------------------------------------------------------
(* Properties *)

\* C1: funds move, and ClaimPayment is deposited, only by a claim_payment call
\* of the payee that carries the payer's signature over exactly the submitted
\* (payee, nonce, amount), on a channel that is open and for a nonce that is
\* not yet consumed; the funds go from that payer to that payee.
C1_ForgedClaimNeverMovesFunds ==
    [][(\/ balance' # balance
        \/ \E i \in 1..Len(Deposited) : Deposited[i].event = "ClaimPayment")
       =>
       /\ call = NoCall
       /\ IsClaim(call')
       /\ result' = Ok
       /\ WellFormedKey(call'.who)
       /\ Authentic(call')
       /\ PairOf(call') \in DOMAIN Channel
       /\ KeyOf(call') \notin Nonce
       /\ \A a \in Accounts :
            /\ balance'[a] < balance[a] => a = call'.who
            /\ balance'[a] > balance[a] => a = call'.origin
       /\ \A i \in 1..Len(Deposited) :
            Deposited[i].event = "ClaimPayment"
            => Deposited[i] = ClaimPaymentEvent(call'.who, call'.origin, call'.amount)
      ]_vars

\* A claim signed by the caller itself, and one signed by the payer for another
\* amount, were turned down, and an authentic one has moved the funds.
C1_Witness ==
    /\ IsClaim(call)
    /\ result = Ok
    /\ Authentic(call)
    /\ balance[call.who] = InitBalance - call.amount
    /\ balance[call.origin] = InitBalance + call.amount
    /\ events # <<>>
    /\ events[Len(events)] = ClaimPaymentEvent(call.who, call.origin, call.amount)

\* C2: while a channel lives, a nonce record stays, and no claim_payment with a
\* consumed nonce succeeds or moves funds, whatever its amount or signature.
C2_NonceSettlesOncePerLife ==
    [][\A k \in Nonce :
         /\ (k[1] \in DOMAIN Channel' => k \in Nonce')
         /\ (IsClaim(call') /\ call = NoCall /\ KeyOf(call') = k)
            => /\ result' = NonceAlreadyConsumed
               /\ balance' = balance
               /\ settled' = settled
      ]_vars

\* A second claim for a consumed nonce, validly signed for a larger amount the
\* payer can afford, was turned down.
C2_Witness ==
    /\ IsClaim(call)
    /\ result = NonceAlreadyConsumed
    /\ KeyOf(call) \in Nonce
    /\ Authentic(call)
    /\ WellFormedKey(call.who)
    /\ call.amount = MaxAmount
    /\ balance[call.who] >= call.amount

\* C3 as stated: over any sequence of operations at most one claim per
\* (payer, payee, nonce) ever settles.
C3_AtMostOneSettlementEver ==
    \A k \in DOMAIN settled : Len(settled[k]) <= 1

\* C3 amended: at most one claim per (payer, payee, nonce) settles in one
\* incarnation of the channel; settled[k] lists, per settlement, how many times
\* the pair had been closed before it.
C3_AtMostOneSettlementPerIncarnation ==
    \A k \in DOMAIN settled :
        \A i, j \in 1..Len(settled[k]) : i # j => settled[k][i] # settled[k][j]

\* The same signed claim has settled in two incarnations of the channel.
C3_Witness ==
    \E k \in DOMAIN settled :
        /\ Len(settled[k]) = 2
        /\ settled[k][1] < settled[k][2]
        /\ k \in Nonce

\* C4: a dispatch that returns an error leaves the channels, the nonces, the
\* balances and the deposited events as they were.
C4_ErrorLeavesStateUnchanged ==
    [][(call = NoCall /\ call' # NoCall /\ result' \in Errors)
       => /\ Channel' = Channel
          /\ Nonce' = Nonce
          /\ balance' = balance
          /\ events' = events
      ]_vars

\* A claim failed on the transfer, after every check had passed, in a state
\* that holds a channel, a nonce and an event.
C4_Witness ==
    /\ IsClaim(call)
    /\ result = InsufficientFunds
    /\ Authentic(call)
    /\ Nonce # {}
    /\ events # <<>>
    /\ KeyOf(call) \notin Nonce

\* C5 as stated: a claim_payment whose payer identifier is not a compressed
\* public key of the expected width, and which gets as far as the verifier,
\* returns InvalidAccountKeyEncoding; no dispatch aborts.
C5_MalformedPayerIsRecoverable ==
    /\ result # Panic
    /\ (/\ IsClaim(call)
        /\ ~WellFormedKey(call.who)
        /\ PairOf(call) \in DOMAIN Channel
        /\ KeyOf(call) \notin Nonce)
       => result = InvalidAccountKeyEncoding

\* C6 as stated: a claim whose payee, nonce or amount differs from what the
\* payer signed fails with SignatureVerificationFailed.
C6_TamperedFailsVerification ==
    (IsClaim(call) /\ Tampered(call)) => result = SignatureVerificationFailed

\* C6 amended: such a claim never succeeds and moves no funds, and it fails
\* with SignatureVerificationFailed when the channel is open, the nonce is not
\* consumed and the payer identifier is a well-formed key.
C6_TamperedNeverSettles ==
    [][(call = NoCall /\ IsClaim(call') /\ Tampered(call'))
       => /\ result' # Ok
          /\ balance' = balance
          /\ Nonce' = Nonce
          /\ (/\ PairOf(call') \in DOMAIN Channel
              /\ KeyOf(call') \notin Nonce
              /\ WellFormedKey(call'.who))
             => result' = SignatureVerificationFailed
      ]_vars

\* The payee raised the amount of a claim the payer had signed for it, on an
\* open channel, and verification failed.
C6_Witness ==
    /\ IsClaim(call)
    /\ result = SignatureVerificationFailed
    /\ PairOf(call) \in DOMAIN Channel
    /\ \E i \in SignedBy(call) :
         /\ <<i[1], i[2], i[3]>> = <<call.who, call.origin, call.nonce>>
         /\ i[4] < call.amount

\* C7: a successful close leaves the pair without channel and without nonces;
\* the pair can be opened again and then has no nonces; and an authentic claim
\* the payer can afford, for a nonce that settled only in earlier incarnations
\* of the channel, succeeds.
C7_ReopenStartsFresh ==
    [][/\ (call = NoCall /\ call'.op = "close_channel" /\ result' = Ok)
          => /\ PairOf(call') \notin DOMAIN Channel'
             /\ {e \in Nonce' : e[1] = PairOf(call')} = {}
       /\ (/\ call = NoCall
           /\ call'.op = "open_channel"
           /\ closed[PairOf(call')] > 0
           /\ PairOf(call') \notin DOMAIN Channel)
          => /\ result' = Ok
             /\ PairOf(call') \in DOMAIN Channel'
             /\ {e \in Nonce' : e[1] = PairOf(call')} = {}
       /\ (/\ call = NoCall
           /\ IsClaim(call')
           /\ PairOf(call') \in DOMAIN Channel
           /\ settled[KeyOf(call')] # <<>>
           /\ \A i \in 1..Len(settled[KeyOf(call')]) :
                settled[KeyOf(call')][i] < closed[PairOf(call')]
           /\ WellFormedKey(call'.who)
           /\ Authentic(call')
           /\ balance[call'.who] >= call'.amount)
          => /\ result' = Ok
             /\ balance'[call'.origin] = balance[call'.origin] + call'.amount
      ]_vars

\* A claim has just settled for a nonce that had already settled before the
\* channel was closed and opened again.
C7_Witness ==
    /\ IsClaim(call)
    /\ result = Ok
    /\ closed[PairOf(call)] = 1
    /\ settled[KeyOf(call)] = <<0, 1>>
    /\ PairOf(call) \in DOMAIN Channel
    /\ NoncesOf(PairOf(call)) = {KeyOf(call)}

\* C8: open_channel for an open pair fails with ChannelAlreadyOpen, and the
\* record of an open channel is the one its open wrote, as long as it is open.
C8_OpenTwiceKeepsRecord ==
    [][\A p \in DOMAIN Channel :
         /\ (call = NoCall /\ call'.op = "open_channel" /\ PairOf(call') = p)
            => result' = ChannelAlreadyOpen
         /\ p \in DOMAIN Channel' => Channel'[p] = Channel[p]
         /\ Channel[p].sender = p[1]
         /\ Channel[p].receiver = p[2]
         /\ Channel[p].expiration <= now
      ]_vars

\* A second open of an open pair, in a later block than the first, failed and
\* the record shows the time of the first.
C8_Witness ==
    /\ call.op = "open_channel"
    /\ result = ChannelAlreadyOpen
    /\ PairOf(call) \in DOMAIN Channel
    /\ Channel[PairOf(call)].expiration < now

\* C9: no channel connects an account with itself, and open_channel(a, a)
\* fails with SelfChannelNotAllowed.
C9_NoSelfChannel ==
    /\ \A p \in DOMAIN Channel : p[1] # p[2]
    /\ (call.op = "open_channel" /\ call.origin = call.who)
       => result = SelfChannelNotAllowed

\* open_channel(a, a) failed while a has a channel open to another account.
C9_Witness ==
    /\ call.op = "open_channel"
    /\ call.origin = call.who
    /\ result = SelfChannelNotAllowed
    /\ \E p \in DOMAIN Channel : p[1] = call.origin

\* C10: a successful claim_payment moves exactly amount from payer to payee,
\* consumes exactly its nonce, deposits exactly one ClaimPayment event and
\* changes no channel, no other nonce and no other balance.
C10_ClaimFrame ==
    [][(call = NoCall /\ IsClaim(call') /\ result' = Ok)
       => LET P == call'.who
              Q == call'.origin
              a == call'.amount
          IN  /\ P # Q
              /\ balance[P] >= a
              /\ balance' = [balance EXCEPT ![P] = @ - a, ![Q] = @ + a]
              /\ KeyOf(call') \notin Nonce
              /\ Nonce' = Nonce \cup {KeyOf(call')}
              /\ events' = Append(events, ClaimPaymentEvent(P, Q, a))
              /\ Channel' = Channel
      ]_vars

\* A claim has settled while another channel is open and another nonce is
\* consumed.
C10_Witness ==
    /\ IsClaim(call)
    /\ result = Ok
    /\ Cardinality(DOMAIN Channel) = 2
    /\ Cardinality(Nonce) = 2
    /\ events # <<>>
    /\ events[Len(events)] = ClaimPaymentEvent(call.who, call.origin, call.amount)

\* The call is a claim_payment that passes every check before the transfer:
\* the channel is open, the nonce is not consumed, the payer identifier is a
\* key and the signature is the payer's over what is submitted.
ReadyToSettle(c) ==
    /\ IsClaim(c)
    /\ PairOf(c) \in DOMAIN Channel
    /\ KeyOf(c) \notin Nonce
    /\ WellFormedKey(c.who)
    /\ Authentic(c)

\* C11: a claim that passes every check and asks for more than the payer has
\* fails with InsufficientFunds and consumes no nonce; one that asks for all
\* the payer has succeeds and leaves the payer at zero; and a nonce becomes
\* consumed only in a step that moves its claim's amount from payer to payee.
C11_TransferBeforeMark ==
    [][/\ (call = NoCall /\ ReadyToSettle(call') /\ balance[call'.who] < call'.amount)
          => /\ result' = InsufficientFunds
             /\ Nonce' = Nonce
             /\ balance' = balance
       /\ (call = NoCall /\ ReadyToSettle(call') /\ balance[call'.who] = call'.amount)
          => /\ result' = Ok
             /\ balance'[call'.who] = 0
       /\ \A k \in Nonce' \ Nonce :
            /\ IsClaim(call')
            /\ k = KeyOf(call')
            /\ call'.who # call'.origin
            /\ balance' = [balance EXCEPT ![call'.who] = @ - call'.amount,
                                          ![call'.origin] = @ + call'.amount]
      ]_vars

\* The payer was emptied by an earlier claim, and a further claim that passes
\* every check was refused for lack of funds with its nonce left unconsumed.
C11_Witness ==
    /\ result = InsufficientFunds
    /\ ReadyToSettle(call)
    /\ balance[call.who] = 0
    /\ balance[call.origin] = 2 * InitBalance

\* The first precondition of claim_payment that c fails, in the order
\* ChannelNotFound, NonceAlreadyConsumed, InvalidAccountKeyEncoding,
\* InvalidSignatureEncoding, SignatureVerificationFailed, InsufficientFunds
FirstFailing(c) ==
    IF PairOf(c) \notin DOMAIN Channel THEN ChannelNotFound
    ELSE IF KeyOf(c) \in Nonce THEN NonceAlreadyConsumed
    ELSE IF ~WellFormedKey(c.who) THEN InvalidAccountKeyEncoding
    ELSE IF c.signature.len # SigLen THEN InvalidSignatureEncoding
    ELSE IF ~Authentic(c) THEN SignatureVerificationFailed
    ELSE IF balance[c.who] < c.amount THEN InsufficientFunds
    ELSE Ok

\* C12 as stated: claim_payment reports the first failing precondition in that
\* fixed order, and succeeds when none fails.
C12_FixedErrorOrder ==
    [][(call = NoCall /\ IsClaim(call')) => result' = FirstFailing(call')]_vars

\* C13: a pair goes from Absent to Open only by an Ok open_channel of its
\* payer, from Open to Absent only by an Ok close_channel of its payee, an Ok
\* claim_payment finds and leaves its pair Open, close_channel on an Absent
\* pair fails with ChannelNotFound, and open_channel or close_channel on a
\* pair in the other state does not move it.
C13_ChannelStateMachine ==
    [][/\ \A p \in Pairs :
            /\ (p \notin DOMAIN Channel /\ p \in DOMAIN Channel')
               => /\ call = NoCall
                  /\ call' = OpenCall(p[1], p[2])
                  /\ result' = Ok
            /\ (p \in DOMAIN Channel /\ p \notin DOMAIN Channel')
               => /\ call = NoCall
                  /\ call' = CloseCall(p[2], p[1])
                  /\ result' = Ok
       /\ (call = NoCall /\ IsClaim(call') /\ result' = Ok)
          => /\ PairOf(call') \in DOMAIN Channel
             /\ PairOf(call') \in DOMAIN Channel'
       /\ (call = NoCall /\ call'.op = "close_channel")
          => IF PairOf(call') \in DOMAIN Channel
             THEN result' = Ok /\ PairOf(call') \notin DOMAIN Channel'
             ELSE result' = ChannelNotFound
       /\ (call = NoCall /\ call'.op = "open_channel" /\ result' = Ok)
          => /\ PairOf(call') \notin DOMAIN Channel
             /\ PairOf(call') \in DOMAIN Channel'
      ]_vars

\* The payer of an open channel called close_channel naming the payee, the
\* call failed and the channel is still open.
C13_Witness ==
    /\ call.op = "close_channel"
    /\ result = ChannelNotFound
    /\ <<call.origin, call.who>> \in DOMAIN Channel
    /\ <<call.who, call.origin>> \notin DOMAIN Channel

\* C14: every nonce record belongs to a pair whose channel is open now: no
\* reachable state has an absent pair with a consumed sequence number, so the
\* records of a closed channel never outlive the channel record.
C14_NoncesOnlyOfOpenChannels ==
    \A k \in Nonce : k[1] \in DOMAIN Channel

\* A channel on which both sequence numbers had been settled has just been
\* closed by its payee, and nothing of the pair is left.
C14_Witness ==
    /\ call.op = "close_channel"
    /\ result = Ok
    /\ PairOf(call) \notin DOMAIN Channel
    /\ \A n \in 0..MaxNonce : settled[<<PairOf(call), n>>] # <<>>
    /\ NoncesOf(PairOf(call)) = {}

\* The channel record of a pair as a set: empty when the pair is absent
RecordOf(ch, pair) == {ch[p] : p \in DOMAIN ch \cap {pair}}

\* C15: a call on pair (P,Q), whatever its outcome, leaves the existence
\* state, the channel record and the consumed-nonce set of every other ordered
\* pair unchanged, the reverse pair (Q,P) included; steps that are not calls
\* change no pair.
C15_OtherPairsUntouched ==
    [][\A q \in Pairs :
          (call = NoCall /\ call' # NoCall /\ q = PairOf(call'))
          \/ /\ RecordOf(Channel', q) = RecordOf(Channel, q)
             /\ {e \in Nonce' : e[1] = q} = NoncesOf(q)
      ]_vars

\* A channel has just been closed while the reverse pair is open and has a
\* consumed sequence number.
C15_Witness ==
    /\ call.op = "close_channel"
    /\ result = Ok
    /\ <<call.origin, call.who>> \in DOMAIN Channel
    /\ NoncesOf(<<call.origin, call.who>>) # {}

\* No claim has ever been settled on the pair, in any of its incarnations
NeverSettled(pair) == \A n \in Nonces : settled[<<pair, n>>] = <<>>

\* The result of a call as a function of its arguments, of the record and the
\* nonce set of its own pair, and of the funds the payer is taken to have
LocalOutcome(c, record, nonces, funds) ==
    IF c.op = "open_channel"
    THEN IF record # {} THEN ChannelAlreadyOpen
         ELSE IF c.origin = c.who THEN SelfChannelNotAllowed
         ELSE Ok
    ELSE IF c.op = "close_channel"
    THEN IF record = {} THEN ChannelNotFound ELSE Ok
    ELSE IF record = {} THEN ChannelNotFound
         ELSE IF KeyOf(c) \in nonces THEN NonceAlreadyConsumed
         ELSE IF Len(AccountEncode(c.who)) # PkLen THEN Panic
         ELSE IF ~WellFormedKey(c.who) THEN InvalidAccountKeyEncoding
         ELSE IF c.signature.len # SigLen THEN InvalidSignatureEncoding
         ELSE IF ~Authentic(c) THEN SignatureVerificationFailed
         ELSE IF funds < c.amount THEN InsufficientFunds
         ELSE Ok

\* C16 as stated: the result of a call on a pair is what it is in the run
\* that has the same calls on that pair and no call on any other pair.  In
\* that run the payer still holds its initial funds as long as nothing was
\* settled on the pair, so the first claim settled on a pair cannot fail for
\* lack of funds when its amount is within the initial balance.
C16_OutcomeIndependentOfOtherPairs ==
    [][(call = NoCall /\ call' # NoCall /\ NeverSettled(PairOf(call')))
          => result' = LocalOutcome(call',
                                    RecordOf(Channel, PairOf(call')),
                                    NoncesOf(PairOf(call')),
                                    InitBalance)
      ]_vars

\* C16 (amended): the result of a call on a pair is determined by the call's
\* arguments, the pair's own channel record and nonce set, and the payer's
\* current balance; the balance is the only thing through which calls on
\* other pairs reach it, and they can only turn Ok into InsufficientFunds
\* or back.
C16_OutcomeFromOwnPairAndFunds ==
    [][(call = NoCall /\ call' # NoCall)
          => result' = LocalOutcome(call',
                                    RecordOf(Channel, PairOf(call')),
                                    NoncesOf(PairOf(call')),
                                    balance[PairOf(call')[1]])
      ]_vars

\* The first claim on a pair, within the initial balance, failed for lack of
\* funds: the payer had paid on another pair.
C16_Witness ==
    /\ IsClaim(call)
    /\ result = InsufficientFunds
    /\ NeverSettled(PairOf(call))
    /\ call.amount <= InitBalance
    /\ \E q \in Pairs \ {PairOf(call)} : ~NeverSettled(q)

\* The digest test_blake2_hash builds as the signing reference: the address
\* bytes, the nonce as 4 big-endian bytes, the u128 amount as big-endian bytes
test_blake2_hash(address, nonce, amount) ==
    LET data == AccountEncode(address)
                  \o to_be_bytes(nonce, NonceLen)
                  \o to_be_bytes(amount, BalanceLen)
    IN  blake2_256(data)

\* C17: for the (payee, nonce, amount) of every claim_payment call, the digest
\* the on-ledger builder computes equals the digest of the signing reference
\* of test_blake2_hash, which encodes the amount big-endian at fixed width.
C17_BuilderMatchesSigningReference ==
    IsClaim(call)
    => construct_byte_array_and_hash(call.origin, call.nonce, call.amount)
         = test_blake2_hash(call.origin, call.nonce, call.amount)

SumOfBalances == balance["P"] + balance["Q"] + balance["B"]

\* C18: the sum of all balances never changes; a step that is not an Ok
\* claim_payment changes no balance, and an Ok claim_payment changes no
\* balance but those of its payer and its payee, by the amount moved from the
\* first to the second.
C18_FundsConserved ==
    [][/\ balance'["P"] + balance'["Q"] + balance'["B"] = SumOfBalances
       /\ SumOfBalances = 3 * InitBalance
       /\ balance' # balance
          => /\ call = NoCall /\ IsClaim(call') /\ result' = Ok
             /\ \A a \in Accounts \ {call'.who, call'.origin} : balance'[a] = balance[a]
             /\ balance'[call'.who] = balance[call'.who] - call'.amount
             /\ balance'[call'.origin] = balance[call'.origin] + call'.amount
      ]_vars

\* Two claims have been settled, to two payees, and every account holds
\* something else than it started with.
C18_Witness ==
    /\ IsClaim(call)
    /\ result = Ok
    /\ \A a \in Accounts : balance[a] # InitBalance
    /\ SumOfBalances = 3 * InitBalance

====
